---- MODULE Spec2Model ----
(***************************************************************************)
(* Model of aes_dump.py: region discovery (structured minidump segments,   *)
(* forward / backward null-block heuristics), the AES key candidate        *)
(* scanner, and the fallback chain of main().                              *)
(*                                                                         *)
(* Offsets are 0-based as in the source; a buffer mm is a TLA+ sequence,   *)
(* so the byte at offset i is mm[i + 1].  A region is the source's tuple   *)
(* <<start, end, size>>.  The configuration constants keep the source's    *)
(* names and order relations, scaled down so that whole buffers can be     *)
(* enumerated.  Entropy is kept in millibits.                              *)
(***************************************************************************)
EXTENDS Integers, Sequences, FiniteSets, TLC

VARIABLES
    mm,            \* the memory-mapped dump file (sequence of bytes)
    segments,      \* dump.memory_segments_64.memory_segments: <<offset, size>> pairs
    pc,            \* control location
    step,          \* index into scan_steps (1 minidump, 2 forward, 3 backward)
    seg_idx,       \* find_regions_from_minidump: index of the next segment
    pos,           \* find_regions_loose: the cursor
    iter,          \* find_regions_loose: locals of the last loop iteration
    regions,       \* the regions list being built / returned
    region_idx,    \* find_aes_keys_in_regions: index of the current region
    i,             \* find_aes_keys_in_regions: the scan offset
    initial_end,   \* find_aes_keys_in_regions: the scan ceiling of the region
    keys_found,    \* find_aes_keys_in_regions: the result set
    emitted,       \* history: every keys_found.add with its region, offset, sightings
    keys,          \* main: the keys variable
    log,           \* history: main's strategies in the order attempted, with outcomes
    output         \* main: the final report

vars == <<mm, segments, pc, step, seg_idx, pos, iter, regions, region_idx, i,
          initial_end, keys_found, emitted, keys, log, output>>

----------------------------------------------------------------------------
(* Configuration (aes_dump.py lines 11-21), scaled.                        *)

MIN_NULL_START_REGION_SIZE == 3
MIN_NULL_END_REGION_SIZE == 3
MAX_REGION_SIZE == 18
AVERAGE_REGION_SIZE == 16
MIN_REGION_SIZE == 5
AES_KEY_SIZE == 4
LOOKAHEAD == 6
\* millibits; 4.7 of log2(32) = 5 bits in the source, here 1.88 of log2(4) = 2 bits
AES_ENTROPY_THRESHOLD == 1880
REQUIRED_REPEATS == 3
MAX_INITIAL_SCAN_IN_REGION == 8
PRE_NULL_CHECK == 2

Zeros(n) == [k \in 1..n |-> 0]

NULL_BLOCK_START == Zeros(MIN_NULL_START_REGION_SIZE)
NULL_BLOCK_END == Zeros(MIN_NULL_END_REGION_SIZE)

Forward == "Forward"
Backward == "Backward"

----------------------------------------------------------------------------
(* Python primitives on bytes / mmap objects.                              *)

Min(a, b) == IF a <= b THEN a ELSE b
Max(a, b) == IF a >= b THEN a ELSE b

\* buf[a:b] for 0 <= a
Slice(buf, a, b) ==
    LET hi == Min(b, Len(buf))
    IN IF a >= hi THEN <<>> ELSE SubSeq(buf, a + 1, hi)

\* buf.find(sub, start): the lowest offset >= start where sub occurs, or -1
Find(buf, sub, start) ==
    LET hits == {j \in start..(Len(buf) - Len(sub)) : Slice(buf, j, j + Len(sub)) = sub}
    IN IF hits = {} THEN -1
       ELSE CHOOSE j \in hits : \A k \in hits : j <= k

\* buf.count(b) for a single byte value b
Count(buf, b) == Cardinality({k \in 1..Len(buf) : buf[k] = b})

----------------------------------------------------------------------------
(* shannon_entropy, in millibits.  PLog2P(f, n) is -(f/n) * log2(f/n)      *)
(* rounded to a millibit, tabulated for the window length the scanner      *)
(* uses (n = AES_KEY_SIZE = 4).                                            *)

PLog2P(f, n) ==
    IF n = 4 THEN
        CASE f = 1 -> 500
          [] f = 2 -> 500
          [] f = 3 -> 311
          [] OTHER -> 0
    ELSE 0

RECURSIVE SumOver(_, _, _)
SumOver(S, data, n) ==
    IF S = {} THEN 0
    ELSE LET b == CHOOSE x \in S : TRUE
         IN PLog2P(Count(data, b), n) + SumOver(S \ {b}, data, n)

shannon_entropy(data) ==
    IF data = <<>> THEN 0
    ELSE SumOver({data[k] : k \in 1..Len(data)}, data, Len(data))

----------------------------------------------------------------------------
(* find_regions_from_minidump                                              *)

\* line 57: the size filter
MinidumpSizeOk(size) == MIN_REGION_SIZE < size /\ size <= MAX_REGION_SIZE

\* lines 54-58: the body of the loop over the declared segments
MinidumpSegment(seg) ==
    LET file_offset == seg[1]
        size == seg[2]
    IN IF MinidumpSizeOk(size)
       THEN << <<file_offset, file_offset + size, size>> >>
       ELSE <<>>

RECURSIVE MinidumpFrom(_, _)
MinidumpFrom(segs, k) ==
    IF k > Len(segs) THEN <<>>
    ELSE MinidumpSegment(segs[k]) \o MinidumpFrom(segs, k + 1)

\* lines 50-61; an absent memory_segments_64 is the empty list of segments
find_regions_from_minidump(segs) == MinidumpFrom(segs, 1)

----------------------------------------------------------------------------
(* find_regions_loose, forward mode                                        *)

\* line 100
ForwardSizeOkLoose(region_size) == MIN_REGION_SIZE < region_size

ForwardSizeOk(region_size) ==
    MIN_REGION_SIZE < region_size /\ region_size <= MAX_REGION_SIZE

\* line 103
ForwardNextPosByOne(start_null, end_null) == start_null + 1

ForwardNextPos(start_null, end_null) == end_null + MIN_NULL_START_REGION_SIZE

Exit(p) ==
    [brk |-> TRUE, out |-> <<>>, pos |-> p,
     start_null |-> -1, region_start |-> -1, end_null |-> -1]

\* lines 79-103: one iteration of the forward loop, entered with pos < size
ForwardIteration(buf, p) ==
    LET start_null == Find(buf, NULL_BLOCK_START, p)
    IN IF start_null = -1 THEN Exit(p)
       ELSE
       LET next_non_null == Find(buf, <<1>>, start_null + MIN_NULL_START_REGION_SIZE)
       IN IF next_non_null = -1 THEN Exit(p)
          ELSE
          LET region_start == next_non_null
          IN IF region_start >= Len(buf) THEN Exit(p)
             ELSE
             LET end_null == Find(buf, NULL_BLOCK_END, region_start)
             IN IF end_null = -1 THEN Exit(p)
                ELSE
                LET region_end == end_null
                    region_size == region_end - region_start
                IN [brk |-> FALSE,
                    out |-> IF ForwardSizeOk(region_size)
                            THEN << <<region_start, region_end, region_size>> >>
                            ELSE <<>>,
                    pos |-> ForwardNextPos(start_null, end_null),
                    start_null |-> start_null,
                    region_start |-> region_start,
                    end_null |-> end_null]

----------------------------------------------------------------------------
(* find_regions_loose, backward mode                                       *)

\* line 121
BackwardSizeOk(region_size) == region_size >= MIN_REGION_SIZE

\* lines 118 and 124
BackwardNextPosStuck(end_null, rejected) ==
    IF rejected THEN end_null ELSE end_null + MIN_NULL_END_REGION_SIZE

BackwardNextPos(end_null, rejected) == end_null + MIN_NULL_END_REGION_SIZE

\* lines 107-124: one iteration of the backward loop, entered with pos < size
BackwardIteration(buf, p) ==
    LET end_null == Find(buf, NULL_BLOCK_END, p)
    IN IF end_null = -1 THEN Exit(p)
       ELSE
       LET region_end == end_null
           region_start == Max(0, region_end - AVERAGE_REGION_SIZE)
           region_size == region_end - region_start
           check_start == Max(region_start, region_end - PRE_NULL_CHECK)
           rejected == Count(Slice(buf, check_start, region_end), 0)
                           = region_end - check_start
       IN [brk |-> FALSE,
           out |-> IF ~rejected /\ BackwardSizeOk(region_size)
                   THEN << <<region_start, region_end, region_size>> >>
                   ELSE <<>>,
           pos |-> BackwardNextPos(end_null, rejected),
           start_null |-> -1,
           region_start |-> region_start,
           end_null |-> end_null]

LooseIteration(buf, scan_mode, p) ==
    IF scan_mode = Forward THEN ForwardIteration(buf, p)
    ELSE BackwardIteration(buf, p)

\* lines 75-129: the whole loop, from cursor p
RECURSIVE LooseFrom(_, _, _)
LooseFrom(buf, scan_mode, p) ==
    IF p >= Len(buf) THEN <<>>
    ELSE LET it == LooseIteration(buf, scan_mode, p)
         IN IF it.brk THEN <<>>
            ELSE it.out \o LooseFrom(buf, scan_mode, it.pos)

find_regions_loose(buf, scan_mode) == LooseFrom(buf, scan_mode, 0)

----------------------------------------------------------------------------
(* find_aes_keys_in_regions                                                *)

\* lines 140-141
InitialEnd(region) ==
    Min(region[1] + MAX_INITIAL_SCAN_IN_REGION, region[2] - AES_KEY_SIZE)

\* lines 143-146: skip the leading null bytes, from offset k
RECURSIVE SkipNulls(_, _, _)
SkipNulls(buf, k, ie) ==
    IF k < ie /\ buf[k + 1] = 0 THEN SkipNulls(buf, k + 1, ie) ELSE k

\* line 160: TRUE when the candidate at offset k is rejected
PreNullRejectNoBound(buf, region_start, k) ==
    k - 2 < 0 \/ Slice(buf, k - 2, k) # <<0, 0>>

PreNullReject(buf, region_start, k) ==
    k - 2 < region_start \/ Slice(buf, k - 2, k) # <<0, 0>>

\* lines 169-178: the next occurrence inside the lookahead window, or -1
NextOccurrence(buf, candidate, region_end, scan_pos) ==
    LET lookahead_start == scan_pos + 1
        lookahead_end == Min(region_end - AES_KEY_SIZE, scan_pos + LOOKAHEAD)
        hits == {j \in lookahead_start..(lookahead_end - 1) :
                    Slice(buf, j, j + AES_KEY_SIZE) = candidate}
    IN IF hits = {} THEN -1
       ELSE CHOOSE j \in hits : \A k \in hits : j <= k

\* lines 168-181: the repeat loop; seen lists the offsets counted so far
RECURSIVE RepeatLoop(_, _, _, _, _, _)
RepeatLoop(buf, candidate, region_end, repeat_count, scan_pos, seen) ==
    IF repeat_count < REQUIRED_REPEATS
    THEN LET j == NextOccurrence(buf, candidate, region_end, scan_pos)
         IN IF j = -1
            THEN [repeat_count |-> repeat_count, seen |-> seen]
            ELSE RepeatLoop(buf, candidate, region_end,
                            repeat_count + 1, j, Append(seen, j))
    ELSE [repeat_count |-> repeat_count, seen |-> seen]

\* line 183
EnoughRepeatsOffByOne(repeat_count) == repeat_count >= REQUIRED_REPEATS - 1

EnoughRepeats(repeat_count) == repeat_count >= REQUIRED_REPEATS

NoHit == [hit |-> FALSE, candidate |-> <<>>, seen |-> <<>>]

\* lines 149-184: the body of the scan loop at offset k of region
ScanOffset(buf, region, k) ==
    LET candidate == Slice(buf, k, k + AES_KEY_SIZE)
    IN IF candidate[1] = 0 THEN NoHit
       ELSE IF Count(candidate, 0) > 2 THEN NoHit
       ELSE IF PreNullReject(buf, region[1], k) THEN NoHit
       ELSE IF shannon_entropy(candidate) >= AES_ENTROPY_THRESHOLD
       THEN LET r == RepeatLoop(buf, candidate, region[2], 1, k, <<k>>)
            IN IF EnoughRepeats(r.repeat_count)
               THEN [hit |-> TRUE, candidate |-> candidate, seen |-> r.seen]
               ELSE NoHit
       ELSE NoHit

\* every keys_found.add of one region: its offset, candidate and sightings
RegionHits(buf, region) ==
    LET ie == InitialEnd(region)
        first == SkipNulls(buf, region[1], ie)
    IN {[region |-> region, i |-> k,
         candidate |-> ScanOffset(buf, region, k).candidate,
         seen |-> ScanOffset(buf, region, k).seen] :
           k \in {x \in first..(ie - AES_KEY_SIZE) : ScanOffset(buf, region, x).hit}}

\* lines 133-191
find_aes_keys_in_regions(buf, regs) ==
    UNION {{h.candidate : h \in RegionHits(buf, regs[r])} : r \in 1..Len(regs)}

----------------------------------------------------------------------------
(* Inputs.  A dump file is a leading null run followed by data segments,   *)
(* each followed by a null run (possibly empty).  The data segments cover  *)
(* the shapes the heuristics distinguish; none holds a full null block.    *)

MaxDataSegs == 2
MaxSegments == 2

KEY == <<2, 3, 4, 5>>

\* a lone 0x01 byte
D_One == <<1>>
\* non-zero throughout, its first byte is not 0x01
D_Seven == <<2, 1, 2, 2, 2, 2, 2>>
\* two nulls, then KEY REQUIRED_REPEATS times back to back
D_KeyRun == <<1, 0, 0>> \o KEY \o KEY \o KEY \o <<2>>
\* the same with KEY only REQUIRED_REPEATS - 1 times
D_KeyShort == <<1, 0, 0>> \o KEY \o KEY \o <<2>>
\* the key run in a segment that holds no 0x01 byte
D_KeyRunNoOne == <<2, 0, 0>> \o KEY \o KEY \o KEY \o <<2>>
\* longer than MAX_REGION_SIZE
D_Long == D_KeyRun \o <<2, 2, 2>>
\* KEY REQUIRED_REPEATS times, the second one LOOKAHEAD bytes after the first
D_Gap == <<1, 0, 0>> \o KEY \o <<1, 1>> \o KEY \o KEY \o <<2>>

DataSet == {D_One, D_Seven, D_KeyRun, D_KeyShort, D_KeyRunNoOne, D_Long, D_Gap}

LeadLens == {0, MIN_NULL_START_REGION_SIZE + 1}

NullLens == {0, MIN_NULL_END_REGION_SIZE + 1, 2 * MIN_NULL_END_REGION_SIZE}

RECURSIVE Tails(_)
Tails(n) ==
    IF n = 0 THEN {<<>>}
    ELSE LET shorter == Tails(n - 1)
         IN shorter \cup {d \o Zeros(z) \o t : d \in DataSet, z \in NullLens, t \in shorter}

\* mmap refuses an empty file, so main never scans one
BuffersOf(n) == {Zeros(l) \o t : l \in LeadLens, t \in Tails(n)} \ {<<>>}

Buffers == BuffersOf(MaxDataSegs)

SmallBuffers == BuffersOf(1)

SegOffsets == {0, MIN_NULL_START_REGION_SIZE + 2}

SegSizes == {MIN_REGION_SIZE, MIN_REGION_SIZE + 1, MAX_REGION_SIZE, MAX_REGION_SIZE + 1}

\* the declared segments lie inside the file
SegChoices(buf) ==
    LET segs == {s \in SegOffsets \X SegSizes : s[1] + s[2] <= Len(buf)}
    IN UNION {[1..n -> segs] : n \in 0..MaxSegments}

----------------------------------------------------------------------------
(* State                                                                   *)

ScanMode(st) == IF st = 2 THEN Forward ELSE Backward

NoIter == Exit(0)

Idle ==
    /\ seg_idx = 1
    /\ pos = 0
    /\ iter = NoIter
    /\ regions = <<>>
    /\ region_idx = 0
    /\ i = 0
    /\ initial_end = 0
    /\ keys_found = {}
    /\ emitted = {}
    /\ keys = {}
    /\ log = <<>>
    /\ output = [text |-> "", keys |-> {}]

\* a single discovery function is called, then the scanner on what it returns
InitStage ==
    /\ \/ /\ step = 1
          /\ mm \in SmallBuffers
          /\ segments \in SegChoices(mm)
          /\ pc = "minidump"
       \/ /\ step \in {2, 3}
          /\ mm \in Buffers
          /\ segments = <<>>
          /\ pc = "loose"
    /\ Idle

\* main() on an existing file
Init ==
    /\ mm \in SmallBuffers
    /\ segments \in SegChoices(mm)
    /\ step = 1
    /\ pc = "main_loop"
    /\ Idle

----------------------------------------------------------------------------
(* find_regions_from_minidump, one declared segment at a time              *)

MinidumpStep ==
    /\ pc = "minidump"
    /\ seg_idx <= Len(segments)
    /\ regions' = regions \o MinidumpSegment(segments[seg_idx])
    /\ seg_idx' = seg_idx + 1
    /\ UNCHANGED <<mm, segments, pc, step, pos, iter, region_idx, i, initial_end,
                   keys_found, emitted, keys, log, output>>

MinidumpReturn ==
    /\ pc = "minidump"
    /\ seg_idx > Len(segments)
    /\ pc' = "found"
    /\ UNCHANGED <<mm, segments, step, seg_idx, pos, iter, regions, region_idx, i,
                   initial_end, keys_found, emitted, keys, log, output>>

(* find_regions_loose, one loop iteration at a time                        *)

LooseStep ==
    /\ pc = "loose"
    /\ pos < Len(mm)
    /\ LET it == LooseIteration(mm, ScanMode(step), pos)
       IN /\ ~it.brk
          /\ regions' = regions \o it.out
          /\ pos' = it.pos
          /\ iter' = it
    /\ UNCHANGED <<mm, segments, pc, step, seg_idx, region_idx, i, initial_end,
                   keys_found, emitted, keys, log, output>>

LooseReturn ==
    /\ pc = "loose"
    /\ \/ pos >= Len(mm)
       \/ LooseIteration(mm, ScanMode(step), pos).brk
    /\ pc' = "found"
    /\ UNCHANGED <<mm, segments, step, seg_idx, pos, iter, regions, region_idx, i,
                   initial_end, keys_found, emitted, keys, log, output>>

(* find_aes_keys_in_regions, one scan offset at a time                     *)

ScanCall ==
    /\ pc = "found"
    /\ keys_found' = {}
    /\ region_idx' = 1
    /\ pc' = "scan_region"
    /\ UNCHANGED <<mm, segments, step, seg_idx, pos, iter, regions, i, initial_end,
                   emitted, keys, log, output>>

ScanRegionStart ==
    /\ pc = "scan_region"
    /\ region_idx <= Len(regions)
    /\ LET region == regions[region_idx]
       IN /\ initial_end' = InitialEnd(region)
          /\ i' = SkipNulls(mm, region[1], InitialEnd(region))
    /\ pc' = "scan"
    /\ UNCHANGED <<mm, segments, step, seg_idx, pos, iter, regions, region_idx,
                   keys_found, emitted, keys, log, output>>

ScanOffsetStep ==
    /\ pc = "scan"
    /\ i <= initial_end - AES_KEY_SIZE
    /\ LET region == regions[region_idx]
           h == ScanOffset(mm, region, i)
       IN IF h.hit
          THEN /\ keys_found' = keys_found \cup {h.candidate}
               /\ emitted' = emitted \cup {[region |-> region, i |-> i,
                                            candidate |-> h.candidate, seen |-> h.seen]}
          ELSE UNCHANGED <<keys_found, emitted>>
    /\ i' = i + 1
    /\ UNCHANGED <<mm, segments, pc, step, seg_idx, pos, iter, regions, region_idx,
                   initial_end, keys, log, output>>

ScanRegionEnd ==
    /\ pc = "scan"
    /\ i > initial_end - AES_KEY_SIZE
    /\ region_idx' = region_idx + 1
    /\ pc' = "scan_region"
    /\ UNCHANGED <<mm, segments, step, seg_idx, pos, iter, regions, i, initial_end,
                   keys_found, emitted, keys, log, output>>

ScanReturn ==
    /\ pc = "scan_region"
    /\ region_idx > Len(regions)
    /\ keys' = keys_found
    /\ pc' = "stage_done"
    /\ UNCHANGED <<mm, segments, step, seg_idx, pos, iter, regions, region_idx, i,
                   initial_end, keys_found, emitted, log, output>>

NextStage ==
    \/ MinidumpStep
    \/ MinidumpReturn
    \/ LooseStep
    \/ LooseReturn
    \/ ScanCall
    \/ ScanRegionStart
    \/ ScanOffsetStep
    \/ ScanRegionEnd
    \/ ScanReturn

SpecStage == InitStage /\ [][NextStage]_vars

----------------------------------------------------------------------------
(* The discovery functions alone                                          *)

NextFind ==
    \/ MinidumpStep
    \/ MinidumpReturn
    \/ LooseStep
    \/ LooseReturn

SpecFind == InitStage /\ [][NextFind]_vars

----------------------------------------------------------------------------
(* main(): the loop over scan_steps                                        *)

\* line 220: the call of the step's scan_func
Discover(buf, segs, st) ==
    IF st = 1 THEN find_regions_from_minidump(segs)
    ELSE find_regions_loose(buf, ScanMode(st))

\* lines 222-225: where the loop goes after discovery
AfterDiscoverBreak(regs, st) ==
    IF regs = <<>>
    THEN [pc |-> "main_report", step |-> st]
    ELSE [pc |-> "main_search", step |-> st]

AfterDiscover(regs, st) ==
    IF regs = <<>>
    THEN [pc |-> "main_loop", step |-> st + 1]
    ELSE [pc |-> "main_search", step |-> st]

\* lines 234-240: where the loop goes after the key search
AfterSearchNoBreak(ks, st) == [pc |-> "main_loop", step |-> st + 1]

AfterSearch(ks, st) ==
    IF ks # {}
    THEN [pc |-> "main_report", step |-> st]
    ELSE [pc |-> "main_loop", step |-> st + 1]

\* lines 219-229
MainDiscover ==
    /\ pc = "main_loop"
    /\ step <= 3
    /\ LET regs == Discover(mm, segments, step)
           to == AfterDiscover(regs, step)
       IN /\ regions' = regs
          /\ log' = Append(log, [step |-> step, regions |-> regs,
                                 scanned |-> FALSE, keys |-> {}])
          /\ pc' = to.pc
          /\ step' = to.step
    /\ UNCHANGED <<mm, segments, seg_idx, pos, iter, region_idx, i, initial_end,
                   keys_found, emitted, keys, output>>

\* lines 231-240
MainSearch ==
    /\ pc = "main_search"
    /\ LET ks == find_aes_keys_in_regions(mm, regions)
           to == AfterSearch(ks, step)
       IN /\ keys' = ks
          /\ log' = [log EXCEPT ![Len(log)].scanned = TRUE, ![Len(log)].keys = ks]
          /\ pc' = to.pc
          /\ step' = to.step
    /\ UNCHANGED <<mm, segments, seg_idx, pos, iter, regions, region_idx, i,
                   initial_end, keys_found, emitted, output>>

\* line 218: scan_steps is exhausted
MainLoopEnd ==
    /\ pc = "main_loop"
    /\ step > 3
    /\ pc' = "main_report"
    /\ UNCHANGED <<mm, segments, step, seg_idx, pos, iter, regions, region_idx, i,
                   initial_end, keys_found, emitted, keys, log, output>>

NoKeys == "No AES keys were found :("
KeysFound == "=== POSSIBLE AES KEY(S) FOUND ==="

\* lines 242-248
MainReport ==
    /\ pc = "main_report"
    /\ output' = IF keys = {}
                 THEN [text |-> NoKeys, keys |-> {}]
                 ELSE [text |-> KeysFound, keys |-> keys]
    /\ pc' = "main_done"
    /\ UNCHANGED <<mm, segments, step, seg_idx, pos, iter, regions, region_idx, i,
                   initial_end, keys_found, emitted, keys, log>>

Next ==
    \/ MainDiscover
    \/ MainSearch
    \/ MainLoopEnd
    \/ MainReport

Spec == Init /\ [][Next]_vars

----------------------------------------------------------------------------
(* Properties of main()                                                    *)

\* a strategy's outcome lets the loop go on: no regions, or a scan with no keys
FellThrough(entry) ==
    \/ entry.regions = <<>>
    \/ entry.scanned /\ entry.keys = {}

\* C1: the strategies are attempted in the order minidump, forward, backward,
\* each at most once; a strategy is attempted only if every earlier one
\* returned no regions or its key scan returned the empty set; and nothing is
\* attempted after a key scan has returned a candidate.
C1_FallbackOrder ==
    /\ Len(log) <= 3
    /\ \A k \in 1..Len(log) : log[k].step = k
    /\ \A k \in 1..Len(log) : \A j \in 1..(k - 1) : FellThrough(log[j])
    /\ \A k \in 1..Len(log) : log[k].keys # {} => k = Len(log)
    /\ pc \in {"main_report", "main_done"} =>
           \/ Len(log) = 3 /\ FellThrough(log[3])
           \/ Len(log) >= 1 /\ log[Len(log)].keys # {}

\* all three strategies ran; the first found regions without keys, the second
\* no regions, the third found keys
C1_Witness ==
    /\ pc = "main_done"
    /\ Len(log) = 3
    /\ log[1].scanned
    /\ log[2].regions = <<>>
    /\ log[3].keys # {}

\* the candidate set of strategy st, computed on its own
ScanOf(st) == find_aes_keys_in_regions(mm, Discover(mm, segments, st))

Productive == {st \in 1..3 : Discover(mm, segments, st) # <<>> /\ ScanOf(st) # {}}

\* C2: the final report is "no keys found" iff none of the three strategies
\* produced a non-empty candidate set; otherwise the reported keys are the
\* candidate set of the first strategy, in priority order, whose scan was
\* non-empty.
C2_FinalReport ==
    pc = "main_done" =>
        /\ output.text = NoKeys <=> Productive = {}
        /\ Productive # {} =>
               /\ output.text = KeysFound
               /\ output.keys =
                      ScanOf(CHOOSE st \in Productive : \A o \in Productive : st <= o)

\* keys are reported from a later strategy after the minidump regions held none
C2_Witness ==
    /\ pc = "main_done"
    /\ output.text = KeysFound
    /\ Len(log) >= 2
    /\ log[1].regions # <<>>

----------------------------------------------------------------------------
(* Properties of the discovery functions                                   *)

RegionSet == {regions[k] : k \in 1..Len(regions)}

\* the segments whose size is in range, in input order, as regions
InRange(seg) == MIN_REGION_SIZE < seg[2] /\ seg[2] <= MAX_REGION_SIZE

Declared ==
    LET ok == SelectSeq(segments, InRange)
    IN [k \in 1..Len(ok) |-> <<ok[k][1], ok[k][1] + ok[k][2], ok[k][2]>>]

\* C5: every region of structured and of forward discovery has
\* size = end - start and MIN_REGION_SIZE < size <= MAX_REGION_SIZE; structured
\* discovery returns exactly the declared segments whose size is in that
\* range, in input order.
C5_RegionBounds ==
    /\ step \in {1, 2} =>
           \A r \in RegionSet :
               /\ r[3] = r[2] - r[1]
               /\ MIN_REGION_SIZE < r[3]
               /\ r[3] <= MAX_REGION_SIZE
    /\ step = 1 /\ pc = "found" => regions = Declared

\* forward discovery returned a region and its last candidate was too large
C5_Witness ==
    /\ step = 2
    /\ pc = "found"
    /\ regions # <<>>
    /\ iter.end_null - iter.region_start > MAX_REGION_SIZE

\* C6: every region of backward discovery has size = end - start and
\* MIN_REGION_SIZE < size, strictly.
C6_BackwardLowerBound ==
    step = 3 =>
        \A r \in RegionSet : r[3] = r[2] - r[1] /\ MIN_REGION_SIZE < r[3]

\* C7: the regions of one forward pass do not overlap: a later region starts
\* at or after the end of every earlier one, and consecutive regions are
\* separated by at least the full null block that ended the earlier one.
C7_ForwardDisjoint ==
    step = 2 =>
        /\ \A a, b \in 1..Len(regions) : a < b => regions[b][1] >= regions[a][2]
        /\ \A a \in 1..(Len(regions) - 1) :
               /\ regions[a + 1][1] >= regions[a][2] + MIN_NULL_END_REGION_SIZE
               /\ Slice(mm, regions[a][2], regions[a][2] + MIN_NULL_END_REGION_SIZE)
                      = NULL_BLOCK_END

\* one forward pass returned two regions
C7_Witness ==
    /\ step = 2
    /\ pc = "found"
    /\ Len(regions) >= 2

\* C9: each region emitted in forward mode starts at the first non-zero byte
\* at or after the end of its framing null block: that byte is non-zero and
\* every byte from the start of the null block up to it is zero.
C9_StartsAtFirstNonZero ==
    (step = 2 /\ iter.out # <<>>) =>
        /\ mm[iter.region_start + 1] # 0
        /\ \A k \in iter.start_null..(iter.region_start - 1) : mm[k + 1] = 0

\* C10: both loops of find_regions_loose terminate: the cursor strictly
\* increases on every iteration that does not exit and never passes the file
\* size by more than a null block, the loop exits once no further null block
\* is found or the cursor has reached the file size.
C10_LoopTerminates ==
    /\ [][(pc = "loose" /\ pc' = "loose") => pos' > pos]_vars
    /\ [][(pc = "loose" /\ (pos >= Len(mm) \/ Find(mm, NULL_BLOCK_END, pos) = -1))
              => pc' = "found"]_vars
    /\ [](pc = "loose" => pos <= Len(mm) + MIN_NULL_END_REGION_SIZE)

\* the backward loop went through its reject branch and returned
C10_Witness ==
    /\ step = 3
    /\ pc = "found"
    /\ regions # <<>>
    /\ iter.end_null >= 0
    /\ iter.out = <<>>
    /\ pos = iter.end_null + MIN_NULL_END_REGION_SIZE

----------------------------------------------------------------------------
(* Properties of find_aes_keys_in_regions                                  *)

Window(k) == Slice(mm, k, k + AES_KEY_SIZE)

\* the offsets of a region at which a whole window equal to candidate lies
Occurrences(candidate, region) ==
    {k \in region[1]..(region[2] - AES_KEY_SIZE) : Window(k) = candidate}

\* C3: a window is added to the result only after REQUIRED_REPEATS sightings:
\* the original at i and later occurrences, each after the previously
\* counted one, inside its LOOKAHEAD window and below region.end - KEY_SIZE;
\* so a sequence with fewer than REQUIRED_REPEATS occurrences in the region
\* is never added.
C3_RequiredRepeats ==
    /\ \A key \in keys_found : \E e \in emitted : e.candidate = key
    /\ \A e \in emitted :
           /\ e.candidate = Window(e.i)
           /\ Len(e.seen) >= REQUIRED_REPEATS
           /\ e.seen[1] = e.i
           /\ \A k \in 1..Len(e.seen) : Window(e.seen[k]) = e.candidate
           /\ \A k \in 1..(Len(e.seen) - 1) :
                  /\ e.seen[k + 1] > e.seen[k]
                  /\ e.seen[k + 1] < e.seen[k] + LOOKAHEAD
                  /\ e.seen[k + 1] < e.region[2] - AES_KEY_SIZE
           /\ Cardinality(Occurrences(e.candidate, e.region)) >= REQUIRED_REPEATS

\* a scan finished with a key in its result
C3_Witness ==
    /\ pc = "stage_done"
    /\ keys # {}
    /\ emitted # {}

\* C8: every candidate added from offset i of a region has i - 2 inside the
\* region and the two bytes before i both null.
C8_PrecedingNulls ==
    \A e \in emitted :
        /\ e.i - 2 >= e.region[1]
        /\ mm[e.i - 1] = 0
        /\ mm[e.i] = 0

\* a key was added whose two preceding nulls are the region's first two bytes
C8_Witness ==
    \E e \in emitted : e.i - 2 = e.region[1]

\* scenario A: a null run longer than the null block, a region in range
\* holding KEY REQUIRED_REPEATS times, another such null run
ScenarioRegions == {D_KeyRun, D_KeyRunNoOne}

ScenarioNulls == Zeros(MIN_NULL_START_REGION_SIZE + 1)

IsScenarioA(buf, d) == buf = ScenarioNulls \o d \o ScenarioNulls

\* C4: on a scenario A buffer forward discovery returns exactly one region,
\* spanning the non-null span, and the scan of it returns KEY alone.
C4_ScenarioA ==
    \A d \in ScenarioRegions :
        (step = 2 /\ pc = "stage_done" /\ IsScenarioA(mm, d)) =>
            /\ regions = << <<Len(ScenarioNulls), Len(ScenarioNulls) + Len(d), Len(d)>> >>
            /\ keys = {KEY}

====
